---- MODULE Spec2Model ----
(***************************************************************************)
(* Model of the house-price train/evaluate scripts: the model artifact     *)
(* resolver (evaluate.py find_or_extract_model), the data loaders          *)
(* (evaluate.py load_data, train.py load_training_data), and the Trainer   *)
(* and Evaluator main() passes.                                            *)
(*                                                                         *)
(* A file name is a sequence of tokens whose concatenation is the name:    *)
(* <<"m", ".", "joblib">> is "m.joblib", <<".", "h">> is ".h".  A path is  *)
(* a sequence of names relative to the directory under discussion.  A      *)
(* directory tree is a function from the paths of its regular files to     *)
(* their contents; a directory exists when a file lies beneath it.         *)
(***************************************************************************)
EXTENDS Integers, Sequences, FiniteSets, TLC

VARIABLES
    fs,          \* resolver: the tree of modelDir, path -> content
    order,       \* resolver: directory-listing order of the names (os.scandir)
    history,     \* resolver: one record per find_or_extract_model call, oldest first
    data,        \* loader: what lies at the data path (a directory, a file, nothing)
    evalData,    \* loader: what evaluate.py load_data returned or raised
    trainData,   \* loader: what train.py load_training_data returned or raised
    job,         \* run: which script runs, "train" or "evaluate"
    argv,        \* run: the command line, option -> value for the options given
    env,         \* run: the environment, variable -> value for the variables set
    header,      \* run: the column names of the CSV files at the data path
    pc,          \* run: where main() stands
    args,        \* run: the Namespace parse_args returned
    paths,       \* run: the effective paths main() settled on
    made,        \* run: the directories os.makedirs created or found
    written,     \* run: the files this run opened for writing, in order, with what got into each
    disk,        \* run: the files of the run's output directory, name -> content
    faults,      \* run: the standard streams a print to which has raised
    attempts,    \* run: the error-log writes this run tried, in order
    exc,         \* run: the exception propagating to the handler
    raised,      \* run: the exception main() ended with
    done         \* run: the steps that completed, in order

rvars == <<fs, order, history>>
lvars == <<data, evalData, trainData>>
mvars == <<job, argv, env, header, pc, args, paths, made, written, disk, faults, attempts, exc, raised, done>>
vars == <<fs, order, history, data, evalData, trainData,
          job, argv, env, header, pc, args, paths, made, written, disk, faults, attempts, exc, raised, done>>

\* the parts of the state a specification does not use stay at these values
NotLoaded == [status |-> "none"]
ResolverIdle == fs = <<>> /\ order = <<>> /\ history = <<>>
LoaderIdle == data = [kind |-> "missing"] /\ evalData = NotLoaded /\ trainData = NotLoaded
RunIdle ==
    /\ job = "none" /\ argv = [ok |-> FALSE, opts |-> <<>>] /\ env = <<>> /\ header = {} /\ pc = "idle"
    /\ args = <<>> /\ paths = <<>> /\ made = {} /\ written = <<>> /\ disk = <<>>
    /\ faults = {} /\ attempts = <<>>
    /\ exc = "none" /\ raised = "none" /\ done = <<>>

----------------------------------------------------------------------------
(* Names *)

N_m   == <<"m", ".", "joblib">>
N_k   == <<"k", ".", "joblib">>
N_hm  == <<".", "m", ".", "joblib">>
N_a   == <<"a", ".", "tar", ".", "gz">>
N_b   == <<"b", ".", "tar", ".", "gz">>
N_txt == <<"n", ".", "txt">>
N_sub == <<"sub">>
N_hid == <<".", "h">>

JoblibExt == <<".", "joblib">>
TarGzExt  == <<".", "tar", ".", "gz">>
CsvExt    == <<".", "csv">>

\* str.endswith(suffix)
EndsWith(name, suffix) ==
    /\ Len(name) >= Len(suffix)
    /\ SubSeq(name, Len(name) - Len(suffix) + 1, Len(name)) = suffix

\* glob._ishidden: the name starts with a dot
IsHidden(name) == Len(name) > 0 /\ name[1] = "."

\* fnmatch of a name against the pattern "*<ext>", as glob applies it: the
\* pattern does not start with a dot, so dot-names are dropped first.
GlobMatch(name, ext) == ~IsHidden(name) /\ EndsWith(name, ext)

----------------------------------------------------------------------------
(* Directory trees *)

IsPrefix(p, q) == Len(p) <= Len(q) /\ SubSeq(q, 1, Len(p)) = p

\* names of the entries directly inside directory dir (files and directories)
Children(tree, dir) ==
    { q[Len(dir) + 1] : q \in { r \in DOMAIN tree : Len(r) > Len(dir) /\ IsPrefix(dir, r) } }

IsFile(tree, p) == p \in DOMAIN tree
IsDir(tree, p) == \E q \in DOMAIN tree : Len(q) > Len(p) /\ IsPrefix(p, q)

\* os.scandir of a directory: its entries in listing order
Listing(tree, ord, dir) == SelectSeq(ord, LAMBDA n : n \in Children(tree, dir))

RECURSIVE Flatten(_)
Flatten(ss) == IF ss = <<>> THEN <<>> ELSE Head(ss) \o Flatten(Tail(ss))

\* tar.extractall(path=model_dir): every member is written under the
\* directory, replacing a file already at that path.
Merge(tree, members) ==
    [p \in DOMAIN tree \cup DOMAIN members |->
        IF p \in DOMAIN members THEN members[p] ELSE tree[p]]

----------------------------------------------------------------------------
(* Archives.  The content of a file is "blob" (bytes that are no archive)  *)
(* or the identifier of a gzip-compressed tar bundle; Members gives the    *)
(* tree a bundle unpacks to.                                               *)

BundleIds == {"TModel", "TDeep", "TNone", "THidden", "TNest"}

Members(content) ==
    CASE content = "TModel"  -> (<<N_m>> :> "blob") @@ (<<N_txt>> :> "blob")
      [] content = "TDeep"   -> (<<N_sub, N_k>> :> "blob")
      [] content = "TNone"   -> (<<N_txt>> :> "blob")
      [] content = "THidden" -> (<<N_hm>> :> "blob") @@ (<<N_hid, N_k>> :> "blob")
      [] content = "TNest"   -> (<<N_b>> :> "TModel")
      [] OTHER               -> <<>>

----------------------------------------------------------------------------
(* glob *)

\* The directories glob's "**" visits below dir, dir itself first, then each
\* non-hidden subdirectory in listing order, depth first (glob._glob2 and
\* glob._rlistdir).
RECURSIVE RecursiveDirs(_, _, _)
RecursiveDirs(tree, ord, dir) ==
    LET subs == SelectSeq(Listing(tree, ord, dir),
                          LAMBDA n : ~IsHidden(n) /\ IsDir(tree, Append(dir, n)))
    IN  <<dir>> \o Flatten([i \in 1..Len(subs) |->
                              RecursiveDirs(tree, ord, Append(dir, subs[i]))])

\* glob._glob1: the entries of one directory that match "*<ext>"
GlobIn(tree, ord, dir, ext) ==
    LET names == SelectSeq(Listing(tree, ord, dir), LAMBDA n : GlobMatch(n, ext))
    IN  [i \in 1..Len(names) |-> Append(dir, names[i])]

\* glob(os.path.join(model_dir, "**", "*.joblib"), recursive=True)
MutGlobJoblibTopOnly(tree, ord) == GlobIn(tree, ord, <<>>, JoblibExt)
GlobJoblib(tree, ord) ==
    LET dirs == RecursiveDirs(tree, ord, <<>>)
    IN  Flatten([i \in 1..Len(dirs) |-> GlobIn(tree, ord, dirs[i], JoblibExt)])

\* glob(os.path.join(model_dir, "*.tar.gz"))
MutGlobTarRecursive(tree, ord) ==
    LET dirs == RecursiveDirs(tree, ord, <<>>)
    IN  Flatten([i \in 1..Len(dirs) |-> GlobIn(tree, ord, dirs[i], TarGzExt)])
GlobTar(tree, ord) == GlobIn(tree, ord, <<>>, TarGzExt)

----------------------------------------------------------------------------
(* find_or_extract_model *)

Outcome(status, variant, path, extracted, tree) ==
    [status |-> status, variant |-> variant, path |-> path,
     extracted |-> extracted, tree |-> tree]

\* The tarball the call opens: tar_candidates[0]
MutTarPathLast(cands) == cands[Len(cands)]
TarPath(cands) == cands[1]

\* Lines 57-71: say which tarball is opened, open the first tarball,
\* extract it, search again, say what was found.  say holds the prints that
\* raise; a print that raises ends the call with its OSError.
MutExtractRollback(tree, ord, say) ==
    LET tar_path == TarPath(GlobTar(tree, ord))
        content  == tree[tar_path]
    IN  IF "extracting" \in say
        THEN Outcome("OSError", "extracting", <<>>, <<>>, tree)
        ELSE IF content \notin BundleIds
        THEN Outcome("ReadError", "open", <<>>, <<>>, tree)
        ELSE LET after == Merge(tree, Members(content))
                 again == GlobJoblib(after, ord)
             IN  IF again = <<>>
                 THEN Outcome("ModelNotFound", "post", <<>>, <<tar_path>>, tree)
                 ELSE IF "extracted" \in say
                 THEN Outcome("OSError", "extracted", <<>>, <<tar_path>>, tree)
                 ELSE Outcome("ok", "extracted", again[1], <<tar_path>>, after)
ExtractAndSearch(tree, ord, say) ==
    LET tar_path == TarPath(GlobTar(tree, ord))
        content  == tree[tar_path]
    IN  IF "extracting" \in say
        THEN \* line 58 raises: the tarball is not opened
             Outcome("OSError", "extracting", <<>>, <<>>, tree)
        ELSE IF content \notin BundleIds
        THEN \* tarfile.open raises tarfile.ReadError: nothing is extracted
             Outcome("ReadError", "open", <<>>, <<>>, tree)
        ELSE LET after == Merge(tree, Members(content))
                 again == GlobJoblib(after, ord)
             IN  IF again = <<>>
                 THEN Outcome("ModelNotFound", "post", <<>>, <<tar_path>>, after)
                 ELSE IF "extracted" \in say
                 THEN \* line 70 raises: the extracted files are there
                      Outcome("OSError", "extracted", <<>>, <<tar_path>>, after)
                 ELSE Outcome("ok", "extracted", again[1], <<tar_path>>, after)

\* The prints of the call (lines 49, 58, 70); each may raise OSError, and
\* the first that does ends the call
ResolverPrints == {"existing", "extracting", "extracted"}
ResolverSays == {{}} \cup {{p} : p \in ResolverPrints}

\* The whole call: its result (or the exception it raises), the archives it
\* extracted, and the tree it leaves behind.
find_or_extract_model(tree, ord, say) ==
    LET joblib_candidates == GlobJoblib(tree, ord)
    IN  IF joblib_candidates # <<>>
        THEN IF "existing" \in say
             THEN Outcome("OSError", "existing", <<>>, <<>>, tree)
             ELSE Outcome("ok", "existing", joblib_candidates[1], <<>>, tree)
        ELSE IF GlobTar(tree, ord) = <<>>
             THEN Outcome("ModelNotFound", "pre", <<>>, <<>>, tree)
             ELSE ExtractAndSearch(tree, ord, say)

----------------------------------------------------------------------------
(* The resolver called repeatedly on one model directory *)

MaxCalls == 2

PlainPaths == {<<N_m>>, <<N_sub, N_m>>, <<N_hid, N_m>>, <<N_txt>>}
TopArchives == {<<N_a>>, <<N_b>>}
NestedArchive == <<N_sub, N_a>>

\* a file named *.tar.gz holds a bundle or bytes that are no archive
ArchiveContents == BundleIds \cup {"blob"}

ModelDirTrees ==
    { [p \in plain \cup DOMAIN tars \cup nested |->
          IF p \in plain THEN "blob"
          ELSE IF p \in DOMAIN tars THEN tars[p] ELSE "TModel"] :
        plain \in SUBSET PlainPaths,
        tars \in UNION { [A -> ArchiveContents] : A \in SUBSET TopArchives },
        nested \in {{}, {NestedArchive}} }

\* Listing orders: the two archive names either way round, the two model
\* names either way round; the position of the other names decides nothing.
ListingOrders ==
    { ta \o jl \o <<N_sub, N_txt, N_hm, N_hid>> :
        ta \in {<<N_a, N_b>>, <<N_b, N_a>>},
        jl \in {<<N_m, N_k>>, <<N_k, N_m>>} }

ResolveInit ==
    /\ fs \in ModelDirTrees
    /\ order \in ListingOrders
    /\ history = <<>>
    /\ LoaderIdle
    /\ RunIdle

\* one call of find_or_extract_model(model_dir); the record keeps the tree
\* the call found and the tree it left
Resolve ==
    /\ Len(history) < MaxCalls
    /\ \E say \in ResolverSays :
          LET out == find_or_extract_model(fs, order, say)
          IN  /\ fs' = out.tree
              /\ history' = Append(history,
                     [status |-> out.status, variant |-> out.variant,
                      path |-> out.path, extracted |-> out.extracted,
                      before |-> fs, after |-> out.tree])
    /\ UNCHANGED <<order, lvars, mvars>>

ResolveNext == Resolve

SpecResolve == ResolveInit /\ [][ResolveNext]_vars

----------------------------------------------------------------------------
(* Data loaders.  A directory is a function from the names of its entries  *)
(* to a table (the rows a CSV file parses to, header excluded) or to "dir" *)
(* for a subdirectory, with the order os.listdir returns the names in.     *)
(* A DataFrame is its index labels and its rows.                           *)

MaxRows == 2
Rows == {"r1", "r2"}
Tables == UNION { [1..n -> Rows] : n \in 0..MaxRows }

D_p1  == <<"p1", ".", "csv">>
D_dot == <<".", "csv">>
D_bak == <<"p1", ".", "csv", ".", "bak">>

\* pd.read_csv of one file: a fresh RangeIndex 0..n-1 over its rows
read_csv(table) == [index |-> [i \in 1..Len(table) |-> i - 1], rows |-> table]

\* pd.concat(frames, ignore_index=True): the rows of the frames one after
\* another, relabelled 0..N-1
MutConcatReversed(frames) ==
    LET rev == [i \in 1..Len(frames) |-> frames[Len(frames) + 1 - i].rows]
        all == Flatten(rev)
    IN  [index |-> [i \in 1..Len(all) |-> i - 1], rows |-> all]
concat(frames) ==
    LET all == Flatten([i \in 1..Len(frames) |-> frames[i].rows])
    IN  [index |-> [i \in 1..Len(all) |-> i - 1], rows |-> all]

\* evaluate.py lines 27-30: the frames of the listed names ending in ".csv"
RECURSIVE EvalFrames(_, _)
EvalFrames(entries, listing) ==
    IF listing = <<>> THEN <<>>
    ELSE (IF EndsWith(Head(listing), CsvExt)
          THEN <<read_csv(entries[Head(listing)])>> ELSE <<>>)
         \o EvalFrames(entries, Tail(listing))

\* evaluate.py load_data
MutLoadDataNoCheck(d) ==
    IF d.kind = "dir" THEN [status |-> "ok", frame |-> concat(EvalFrames(d.entries, d.listing))]
    ELSE IF d.kind = "file" THEN [status |-> "ok", frame |-> read_csv(d.table)]
    ELSE [status |-> "FileNotFoundError"]
load_data(d) ==
    IF d.kind = "dir"
    THEN LET frames == EvalFrames(d.entries, d.listing)
         IN  IF frames = <<>>
             THEN [status |-> "NoDataFound"]        \* ValueError, line 32
             ELSE [status |-> "ok", frame |-> concat(frames)]
    ELSE IF d.kind = "file"
         THEN [status |-> "ok", frame |-> read_csv(d.table)]
         ELSE [status |-> "FileNotFoundError"]      \* pd.read_csv of a missing path

\* train.py lines 30-33
RECURSIVE TrainFrames(_, _)
TrainFrames(entries, listing) ==
    IF listing = <<>> THEN <<>>
    ELSE (IF EndsWith(Head(listing), CsvExt)
          THEN <<read_csv(entries[Head(listing)])>> ELSE <<>>)
         \o TrainFrames(entries, Tail(listing))

\* train.py load_training_data
MutLoadTrainingFirstOnly(d) ==
    IF d.kind = "dir"
    THEN LET frames == TrainFrames(d.entries, d.listing)
         IN  IF frames = <<>> THEN [status |-> "NoDataFound"]
             ELSE [status |-> "ok", frame |-> frames[1]]
    ELSE IF d.kind = "file" THEN [status |-> "ok", frame |-> read_csv(d.table)]
    ELSE [status |-> "FileNotFoundError"]
load_training_data(d) ==
    IF d.kind = "dir"
    THEN LET frames == TrainFrames(d.entries, d.listing)
         IN  IF frames = <<>>
             THEN [status |-> "NoDataFound"]        \* ValueError, line 35
             ELSE [status |-> "ok", frame |-> concat(frames)]
    ELSE IF d.kind = "file"
         THEN [status |-> "ok", frame |-> read_csv(d.table)]
         ELSE [status |-> "FileNotFoundError"]

Orderings(S) ==
    { f \in [1..Cardinality(S) -> S] : \A i, j \in 1..Cardinality(S) : i # j => f[i] # f[j] }

\* Directories: up to two CSV parts with any table, one of them named just
\* ".csv"; a file whose name only contains ".csv"; a subdirectory; listed in
\* any order.
DataDirs ==
    { [kind |-> "dir", entries |-> e, listing |-> l] :
        <<e, l>> \in UNION {
            { <<[n \in DOMAIN parts \cup extra |->
                    IF n \in DOMAIN parts THEN parts[n]
                    ELSE IF n = D_bak THEN <<"r1">> ELSE "dir"], l>> :
                l \in Orderings(DOMAIN parts \cup extra) } :
            parts \in UNION { [A -> Tables] : A \in SUBSET {D_p1, D_dot} },
            extra \in SUBSET {D_bak, N_sub} } }

DataFiles == { [kind |-> "file", table |-> t] : t \in Tables }

LoadInit ==
    /\ data \in DataDirs \cup DataFiles \cup {[kind |-> "missing"]}
    /\ evalData = NotLoaded
    /\ trainData = NotLoaded
    /\ ResolverIdle
    /\ RunIdle

\* evaluate.py: df = load_data(test_path)
LoadEval ==
    /\ evalData = NotLoaded
    /\ evalData' = load_data(data)
    /\ UNCHANGED <<data, trainData, rvars, mvars>>

\* train.py: df = load_training_data(train_path)
LoadTrain ==
    /\ trainData = NotLoaded
    /\ trainData' = load_training_data(data)
    /\ UNCHANGED <<data, evalData, rvars, mvars>>

LoadNext == LoadEval \/ LoadTrain

SpecLoad == LoadInit /\ [][LoadNext]_vars

----------------------------------------------------------------------------
(* The two scripts' main().  The command line is the function from the     *)
(* options given to their values, with ok false when argparse rejects it;  *)
(* the                                                                     *)
(* environment is a function from the variables set to their values.  The  *)
(* world is what lies at the effective paths: fs and order at the model    *)
(* directory, data and header at the data path.  Directory creation, file  *)
(* writes, unpickling and fitting can fail for reasons outside the model.  *)

BadArgv == [ok |-> FALSE, opts |-> <<>>]
GetEnv(e, var, default) == IF var \in DOMAIN e THEN e[var] ELSE default
JoinPath(dir, name) == [dir |-> dir, name |-> name]
FeatureColumns == {"size_sqft", "num_rooms", "age_years"}
TargetColumn == "price"

\* os.makedirs(d, exist_ok=True) cannot succeed on the empty path
CanMake(d, ok) == ok /\ d # ""

\* a bare raise re-raises the exception being handled, whatever became of
\* the log write tried inside the handler
MutReraiseLogError(original, logOk) == IF logOk THEN original ELSE "OSError"
Reraise(original, logOk) == original

\* a print to a standard stream that raised: its OSError is the exception
\* that travels on
PrintRaised(stream) == faults' = faults \cup {stream}

\* with open(path, "w") as f: f.write(text).  The open can fail and then
\* leaves the directory as it was; once it has succeeded the file is there,
\* emptied, and the write can stop after any part of the text
Prefixes(text) == { SubSeq(text, 1, n) : n \in 0..Len(text) }
WriteOutcomes(text) ==
    {[opened |-> FALSE, content |-> <<>>]} \cup
    {[opened |-> TRUE, content |-> c] : c \in Prefixes(text)}
Complete(w, text) == w.opened /\ w.content = text

\* the files opened for writing so far, and the directory after the write:
\* an opened file replaces whatever lay under its name
FileWrite(ws, dir, name, w) ==
    IF w.opened THEN Append(ws, [dir |-> dir, name |-> name, content |-> w.content]) ELSE ws
DiskWrite(d, name, w) ==
    IF w.opened THEN (name :> w.content) @@ d ELSE d

\* the write of an error log inside try/except Exception: pass
LogWrite(ws, dir, name, w) == FileWrite(ws, dir, name, w)

\* what the scripts write
NotFoundText(variant) == <<variant, "Directory listings above">>
LogText(e) == <<"Traceback", e>>
MetricsText == <<"{", "mse", "}">>
ModelText == <<"LinearRegression", "coef_">>
EarlierText == <<"earlier">>

(* evaluate.py *)

EvalOptions == {"model_dir", "test_data", "output_dir"}
EvalDefault(o) ==
    CASE o = "model_dir"  -> "/opt/ml/model"
      [] o = "test_data"  -> "/opt/ml/input/data/test"
      [] o = "output_dir" -> "/opt/ml/output"

\* parse_args: every option not given takes its default
eval_parse_args(av) ==
    [o \in EvalOptions |-> IF o \in DOMAIN av.opts THEN av.opts[o] ELSE EvalDefault(o)]

\* lines 80-82: args.x or os.environ.get(VAR, default)
EvalEffectivePaths(a, e) ==
    [model_dir  |-> IF a.model_dir # "" THEN a.model_dir
                    ELSE GetEnv(e, "SM_MODEL_DIR", "/opt/ml/model"),
     test_data  |-> IF a.test_data # "" THEN a.test_data
                    ELSE GetEnv(e, "SM_CHANNEL_TEST", "/opt/ml/input/data/test"),
     output_dir |-> IF a.output_dir # "" THEN a.output_dir
                    ELSE GetEnv(e, "SM_OUTPUT_DATA_DIR", "/opt/ml/output")]

EvalSteps == <<"parse", "paths", "mkdir", "resolve", "load_model", "load_data",
               "select", "predict", "metric", "persist">>

\* a step that raised: the exception travels to the handler at line 151
MutEvalFailGoesOn(e) ==
    /\ exc' = e
    /\ pc' = "persist"
    /\ UNCHANGED done
EvalFail(e) ==
    /\ exc' = e
    /\ pc' = "handler"
    /\ UNCHANGED done

\* line 76
E_ParseArgs ==
    /\ job = "evaluate" /\ pc = "start"
    /\ IF ~argv.ok
       THEN \* argparse exits: SystemExit is no Exception, the handler is skipped
            /\ pc' = "FatalError" /\ raised' = "SystemExit"
            /\ UNCHANGED <<args, done>>
       ELSE /\ args' = eval_parse_args(argv)
            /\ pc' = "paths" /\ done' = Append(done, "parse")
            /\ UNCHANGED raised
    /\ UNCHANGED <<rvars, lvars, job, argv, env, header, paths, made, written, disk, faults, attempts, exc>>

\* lines 80-82
E_ResolvePaths ==
    /\ job = "evaluate" /\ pc = "paths"
    /\ paths' = EvalEffectivePaths(args, env)
    /\ pc' = "mkdir" /\ done' = Append(done, "paths")
    /\ UNCHANGED <<rvars, lvars, job, argv, env, header, args, made, written, disk, faults, attempts, exc, raised>>

\* lines 85-100: the start-up prints, then os.makedirs
E_MakeOutputDir ==
    /\ job = "evaluate" /\ pc = "mkdir"
    /\ \E say \in BOOLEAN, ok \in BOOLEAN :
          IF ~say
          THEN EvalFail("OSError") /\ PrintRaised("stdout") /\ UNCHANGED made
          ELSE IF CanMake(paths.output_dir, ok)
          THEN /\ made' = made \cup {paths.output_dir}
               /\ pc' = "resolve" /\ done' = Append(done, "mkdir")
               /\ UNCHANGED <<exc, faults>>
          ELSE EvalFail("OSError") /\ UNCHANGED <<made, faults>>
    /\ UNCHANGED <<rvars, lvars, job, argv, env, header, args, paths, written, disk, attempts, raised>>

\* lines 103-122: the directory listings are printed (a listing that fails
\* is reported by a print of its own, line 107), the resolver is called,
\* and its FileNotFoundError is printed to stderr and logged before the
\* bare raise
E_FindModel ==
    /\ job = "evaluate" /\ pc = "resolve"
    /\ \E listed \in BOOLEAN, say \in ResolverSays, err \in BOOLEAN :
          IF ~listed
          THEN /\ EvalFail("OSError") /\ PrintRaised("stdout")
               /\ UNCHANGED <<fs, history, written, disk, attempts>>
          ELSE LET out == find_or_extract_model(fs, order, say)
               IN  /\ fs' = out.tree
                   /\ history' = Append(history,
                          [status |-> out.status, variant |-> out.variant,
                           path |-> out.path, extracted |-> out.extracted,
                           before |-> fs, after |-> out.tree])
                   /\ IF out.status = "ok"
                      THEN /\ pc' = "load_model" /\ done' = Append(done, "resolve")
                           /\ UNCHANGED <<written, disk, faults, attempts, exc>>
                      ELSE IF out.status = "ModelNotFound"
                      THEN IF ~err
                           THEN \* line 115 raises: the log is not tried
                                /\ EvalFail("OSError") /\ PrintRaised("stderr")
                                /\ UNCHANGED <<written, disk, attempts>>
                           ELSE \E w \in WriteOutcomes(NotFoundText(out.variant)) :
                                   LET logOk == Complete(w, NotFoundText(out.variant))
                                   IN  /\ written' = LogWrite(written, paths.output_dir,
                                                              "model_not_found.log", w)
                                       /\ disk' = DiskWrite(disk, "model_not_found.log", w)
                                       /\ attempts' = Append(attempts,
                                              [name |-> "model_not_found.log", ok |-> logOk])
                                       /\ EvalFail(Reraise("ModelNotFound", logOk))
                                       /\ UNCHANGED faults
                      ELSE /\ EvalFail(out.status)
                           /\ faults' = IF out.status = "OSError"
                                         THEN faults \cup {"stdout"} ELSE faults
                           /\ UNCHANGED <<written, disk, attempts>>
    /\ UNCHANGED <<order, lvars, job, argv, env, header, args, paths, made, raised>>

\* lines 124-129: the path is printed, then joblib.load
E_LoadModel ==
    /\ job = "evaluate" /\ pc = "load_model"
    /\ \E say \in BOOLEAN, ok \in BOOLEAN :
          IF ~say
          THEN EvalFail("OSError") /\ PrintRaised("stdout")
          ELSE IF ok
          THEN pc' = "load_data" /\ done' = Append(done, "load_model") /\ UNCHANGED <<exc, faults>>
          ELSE EvalFail("UnpicklingError") /\ UNCHANGED faults
    /\ UNCHANGED <<rvars, lvars, job, argv, env, header, args, paths, made, written, disk, attempts, raised>>

\* lines 132-133: load_data, then the shape is printed
E_LoadData ==
    /\ job = "evaluate" /\ pc = "load_data"
    /\ evalData' = load_data(data)
    /\ IF load_data(data).status = "ok"
       THEN \E say \in BOOLEAN :
               IF say
               THEN pc' = "select" /\ done' = Append(done, "load_data") /\ UNCHANGED <<exc, faults>>
               ELSE EvalFail("OSError") /\ PrintRaised("stdout")
       ELSE EvalFail(load_data(data).status) /\ UNCHANGED faults
    /\ UNCHANGED <<rvars, data, trainData, job, argv, env, header, args, paths, made, written, disk, attempts, raised>>

\* lines 134-135
E_Select ==
    /\ job = "evaluate" /\ pc = "select"
    /\ IF FeatureColumns \cup {TargetColumn} \subseteq header
       THEN pc' = "predict" /\ done' = Append(done, "select") /\ UNCHANGED exc
       ELSE EvalFail("MissingColumn")
    /\ UNCHANGED <<rvars, lvars, job, argv, env, header, args, paths, made, written, disk, faults, attempts, raised>>

\* line 137: predict rejects a table without rows, and may reject its values
E_Predict ==
    /\ job = "evaluate" /\ pc = "predict"
    /\ \E ok \in BOOLEAN :
          IF ok /\ evalData.frame.rows # <<>>
          THEN pc' = "metric" /\ done' = Append(done, "predict") /\ UNCHANGED exc
          ELSE EvalFail("ValueError")
    /\ UNCHANGED <<rvars, lvars, job, argv, env, header, args, paths, made, written, disk, faults, attempts, raised>>

\* lines 138-144: mean_squared_error may reject the values of the price
\* column, which nothing has looked at so far; then the value is printed
E_Metric ==
    /\ job = "evaluate" /\ pc = "metric"
    /\ \E ok \in BOOLEAN, say \in BOOLEAN :
          IF ~ok
          THEN EvalFail("ValueError") /\ UNCHANGED faults
          ELSE IF ~say
          THEN EvalFail("OSError") /\ PrintRaised("stdout")
          ELSE pc' = "persist" /\ done' = Append(done, "metric") /\ UNCHANGED <<exc, faults>>
    /\ UNCHANGED <<rvars, lvars, job, argv, env, header, args, paths, made, written, disk, attempts, raised>>

\* lines 146-150: metrics.json is written, then its path is printed
E_Persist ==
    /\ job = "evaluate" /\ pc = "persist"
    /\ \E w \in WriteOutcomes(MetricsText), say \in BOOLEAN :
          /\ written' = FileWrite(written, paths.output_dir, "metrics.json", w)
          /\ disk' = DiskWrite(disk, "metrics.json", w)
          /\ IF ~Complete(w, MetricsText)
             THEN EvalFail("OSError") /\ UNCHANGED faults
             ELSE IF ~say
             THEN \* line 150 raises: the file is there in full
                  EvalFail("OSError") /\ PrintRaised("stdout")
             ELSE pc' = "Success" /\ done' = Append(done, "persist") /\ UNCHANGED <<exc, faults>>
    /\ UNCHANGED <<rvars, lvars, job, argv, env, header, args, paths, made, attempts, raised>>

\* lines 151-162: the traceback is printed to stderr, the log is tried
\* inside try/except, and the bare raise ends main()
E_Handler ==
    /\ job = "evaluate" /\ pc = "handler"
    /\ \E err \in BOOLEAN, mk \in BOOLEAN, w \in WriteOutcomes(LogText(exc)) :
          IF ~err
          THEN \* line 154 raises: its OSError leaves main(), nothing else is tried
               /\ raised' = "OSError" /\ PrintRaised("stderr")
               /\ UNCHANGED <<made, written, disk, attempts>>
          ELSE IF CanMake(paths.output_dir, mk)
          THEN LET logOk == Complete(w, LogText(exc))
               IN  /\ made' = made \cup {paths.output_dir}
                   /\ written' = LogWrite(written, paths.output_dir,
                                          "evaluation_error.log", w)
                   /\ disk' = DiskWrite(disk, "evaluation_error.log", w)
                   /\ attempts' = Append(attempts,
                          [name |-> "evaluation_error.log", ok |-> logOk])
                   /\ raised' = Reraise(exc, logOk)
                   /\ UNCHANGED faults
          ELSE \* os.makedirs raised: the log is not opened
               /\ attempts' = Append(attempts,
                      [name |-> "evaluation_error.log", ok |-> FALSE])
               /\ raised' = Reraise(exc, FALSE)
               /\ UNCHANGED <<made, written, disk, faults>>
    /\ pc' = "FatalError"
    /\ UNCHANGED <<rvars, lvars, job, argv, env, header, args, paths, exc, done>>

(* train.py *)

TrainOptions == {"train_data", "model_dir"}
TrainDefault(o) ==
    CASE o = "train_data" -> "/opt/ml/input/data/train"
      [] o = "model_dir"  -> "/opt/ml/model"

\* parse_args: every option not given takes its default
train_parse_args(av) ==
    [o \in TrainOptions |-> IF o \in DOMAIN av.opts THEN av.opts[o] ELSE TrainDefault(o)]

\* lines 48-53: os.environ.get(VAR, args.x)
MutTrainArgsFirst(a, e) ==
    [train_data |-> IF a.train_data # "" THEN a.train_data
                    ELSE GetEnv(e, "SM_CHANNEL_TRAIN", "/opt/ml/input/data/train"),
     model_dir  |-> IF a.model_dir # "" THEN a.model_dir
                    ELSE GetEnv(e, "SM_MODEL_DIR", "/opt/ml/model")]
TrainEffectivePaths(a, e) ==
    [train_data |-> GetEnv(e, "SM_CHANNEL_TRAIN", a.train_data),
     model_dir  |-> GetEnv(e, "SM_MODEL_DIR", a.model_dir)]

TrainSteps == <<"parse", "paths", "mkdir", "load_data", "select", "fit", "metric", "persist">>

\* a step that raised: the exception travels to the handler at line 89
TrainFail(e) ==
    /\ exc' = e
    /\ pc' = "handler"
    /\ UNCHANGED done

\* line 45
T_ParseArgs ==
    /\ job = "train" /\ pc = "start"
    /\ IF ~argv.ok
       THEN /\ pc' = "FatalError" /\ raised' = "SystemExit"
            /\ UNCHANGED <<args, done>>
       ELSE /\ args' = train_parse_args(argv)
            /\ pc' = "paths" /\ done' = Append(done, "parse")
            /\ UNCHANGED raised
    /\ UNCHANGED <<rvars, lvars, job, argv, env, header, paths, made, written, disk, faults, attempts, exc>>

\* lines 48-53
T_ResolvePaths ==
    /\ job = "train" /\ pc = "paths"
    /\ paths' = TrainEffectivePaths(args, env)
    /\ pc' = "mkdir" /\ done' = Append(done, "paths")
    /\ UNCHANGED <<rvars, lvars, job, argv, env, header, args, made, written, disk, faults, attempts, exc, raised>>

\* lines 56-66: the start-up prints, then os.makedirs
T_MakeModelDir ==
    /\ job = "train" /\ pc = "mkdir"
    /\ \E say \in BOOLEAN, ok \in BOOLEAN :
          IF ~say
          THEN TrainFail("OSError") /\ PrintRaised("stdout") /\ UNCHANGED made
          ELSE IF CanMake(paths.model_dir, ok)
          THEN /\ made' = made \cup {paths.model_dir}
               /\ pc' = "load_data" /\ done' = Append(done, "mkdir")
               /\ UNCHANGED <<exc, faults>>
          ELSE TrainFail("OSError") /\ UNCHANGED <<made, faults>>
    /\ UNCHANGED <<rvars, lvars, job, argv, env, header, args, paths, written, disk, attempts, raised>>

\* lines 69-70: load_training_data, then the shape is printed
T_LoadData ==
    /\ job = "train" /\ pc = "load_data"
    /\ trainData' = load_training_data(data)
    /\ IF load_training_data(data).status = "ok"
       THEN \E say \in BOOLEAN :
               IF say
               THEN pc' = "select" /\ done' = Append(done, "load_data") /\ UNCHANGED <<exc, faults>>
               ELSE TrainFail("OSError") /\ PrintRaised("stdout")
       ELSE TrainFail(load_training_data(data).status) /\ UNCHANGED faults
    /\ UNCHANGED <<rvars, data, evalData, job, argv, env, header, args, paths, made, written, disk, attempts, raised>>

\* lines 73-74
T_Select ==
    /\ job = "train" /\ pc = "select"
    /\ IF FeatureColumns \cup {TargetColumn} \subseteq header
       THEN pc' = "fit" /\ done' = Append(done, "select") /\ UNCHANGED exc
       ELSE TrainFail("MissingColumn")
    /\ UNCHANGED <<rvars, lvars, job, argv, env, header, args, paths, made, written, disk, faults, attempts, raised>>

\* lines 77-78: fit rejects a table without rows, and may reject its values
T_Fit ==
    /\ job = "train" /\ pc = "fit"
    /\ \E ok \in BOOLEAN :
          IF ok /\ trainData.frame.rows # <<>>
          THEN pc' = "metric" /\ done' = Append(done, "fit") /\ UNCHANGED exc
          ELSE TrainFail("ValueError")
    /\ UNCHANGED <<rvars, lvars, job, argv, env, header, args, paths, made, written, disk, faults, attempts, raised>>

\* lines 81-83: model.predict or mean_squared_error may raise; then the
\* value is printed
T_Metric ==
    /\ job = "train" /\ pc = "metric"
    /\ \E ok \in BOOLEAN, say \in BOOLEAN :
          IF ~ok
          THEN TrainFail("ValueError") /\ UNCHANGED faults
          ELSE IF ~say
          THEN TrainFail("OSError") /\ PrintRaised("stdout")
          ELSE pc' = "persist" /\ done' = Append(done, "metric") /\ UNCHANGED <<exc, faults>>
    /\ UNCHANGED <<rvars, lvars, job, argv, env, header, args, paths, made, written, disk, attempts, raised>>

\* lines 86-88: joblib.dump writes model.joblib, then its path is printed
T_Persist ==
    /\ job = "train" /\ pc = "persist"
    /\ \E w \in WriteOutcomes(ModelText), say \in BOOLEAN :
          /\ written' = FileWrite(written, paths.model_dir, "model.joblib", w)
          /\ disk' = DiskWrite(disk, "model.joblib", w)
          /\ IF ~Complete(w, ModelText)
             THEN TrainFail("OSError") /\ UNCHANGED faults
             ELSE IF ~say
             THEN \* line 88 raises: the file is there in full
                  TrainFail("OSError") /\ PrintRaised("stdout")
             ELSE pc' = "Success" /\ done' = Append(done, "persist") /\ UNCHANGED <<exc, faults>>
    /\ UNCHANGED <<rvars, lvars, job, argv, env, header, args, paths, made, attempts, raised>>

\* lines 89-99: the traceback is printed to stderr, the log is tried
\* inside try/except, and the bare raise ends main()
T_Handler ==
    /\ job = "train" /\ pc = "handler"
    /\ \E err \in BOOLEAN, mk \in BOOLEAN, w \in WriteOutcomes(LogText(exc)) :
          IF ~err
          THEN \* line 91 raises: its OSError leaves main(), nothing else is tried
               /\ raised' = "OSError" /\ PrintRaised("stderr")
               /\ UNCHANGED <<made, written, disk, attempts>>
          ELSE IF CanMake(paths.model_dir, mk)
          THEN LET logOk == Complete(w, LogText(exc))
               IN  /\ made' = made \cup {paths.model_dir}
                   /\ written' = LogWrite(written, paths.model_dir, "train_error.log", w)
                   /\ disk' = DiskWrite(disk, "train_error.log", w)
                   /\ attempts' = Append(attempts, [name |-> "train_error.log", ok |-> logOk])
                   /\ raised' = Reraise(exc, logOk)
                   /\ UNCHANGED faults
          ELSE \* os.makedirs raised: the log is not opened
               /\ attempts' = Append(attempts, [name |-> "train_error.log", ok |-> FALSE])
               /\ raised' = Reraise(exc, FALSE)
               /\ UNCHANGED <<made, written, disk, faults>>
    /\ pc' = "FatalError"
    /\ UNCHANGED <<rvars, lvars, job, argv, env, header, args, paths, exc, done>>

(* One run of one script *)

CliValue(o) ==
    CASE o = "model_dir"  -> "/cli/model"
      [] o = "test_data"  -> "/cli/test"
      [] o = "output_dir" -> "/cli/output"
      [] o = "train_data" -> "/cli/train"

\* command lines: any subset of the options, each with a path or with ""
Argvs(options) ==
    { [ok |-> TRUE, opts |-> [o \in given |-> IF o \in empty THEN "" ELSE CliValue(o)]] :
        given \in SUBSET options, empty \in SUBSET options } \cup {BadArgv}

\* the plain command lines: no option, and every option with a path
PlainArgvs(options) ==
    { [ok |-> TRUE, opts |-> <<>>],
      [ok |-> TRUE, opts |-> [o \in options |-> CliValue(o)]] }

EnvValue(v) ==
    CASE v = "SM_MODEL_DIR"       -> "/env/model"
      [] v = "SM_CHANNEL_TEST"    -> "/env/test"
      [] v = "SM_OUTPUT_DATA_DIR" -> "/env/output"
      [] v = "SM_CHANNEL_TRAIN"   -> "/env/train"

\* environments: any subset of the variables set, to a path or (empties) to ""
Envs(variables, empties) ==
    { [v \in set |-> IF v \in empty THEN "" ELSE EnvValue(v)] :
        set \in SUBSET variables, empty \in SUBSET empties }

\* the plain environments: no variable set, and every variable set to a path
PlainEnvs(variables) == { <<>>, [v \in variables |-> EnvValue(v)] }

RunOrder == <<N_a, N_b, N_m, N_k, N_sub, N_txt, N_hm, N_hid>>

\* the output directory before the run: empty, or holding the artifact of
\* an earlier run
EarlierDisks(j) ==
    {<<>>, (IF j = "train" THEN "model.joblib" ELSE "metrics.json") :> EarlierText}

\* model directories: empty, a model, an archive with a model, an archive
\* without, an archive only in a subdirectory, a .tar.gz that is no archive
RunTrees ==
    { <<>>,
      (<<N_m>> :> "blob"),
      (<<N_a>> :> "TModel"),
      (<<N_a>> :> "TNone"),
      (<<N_sub, N_a>> :> "TModel") @@ (<<N_txt>> :> "blob"),
      (<<N_a>> :> "blob") }

PlainTree == (<<N_a>> :> "TModel")

AllColumns == FeatureColumns \cup {TargetColumn}

\* data paths: a directory of parts, a directory without parts, a file, a
\* file with a header only, nothing; and a directory whose parts lack the
\* target column
PlainData ==
    <<[kind |-> "dir", entries |-> (D_p1 :> <<"r1", "r2">>) @@ (D_bak :> <<"r1">>),
      listing |-> <<D_bak, D_p1>>], AllColumns>>
RunData ==
    { PlainData,
      <<[kind |-> "dir", entries |-> (D_p1 :> <<"r1", "r2">>) @@ (D_bak :> <<"r1">>),
         listing |-> <<D_bak, D_p1>>], FeatureColumns>>,
      <<[kind |-> "dir", entries |-> (D_bak :> <<"r1">>), listing |-> <<D_bak>>], AllColumns>>,
      <<[kind |-> "file", table |-> <<"r1">>], AllColumns>>,
      <<[kind |-> "file", table |-> <<>>], AllColumns>>,
      <<[kind |-> "missing"], AllColumns>> }

\* the Evaluator is started with every command line and environment over
\* plain directories, and with plain command lines and environments over
\* every content of the directories; the Trainer with all of them together
\* the data path main() will settle on, and what lies there: nothing lies at
\* the empty path (os.path.isdir("") is False, pd.read_csv("") finds no file)
DataPath(j, av, e) ==
    IF ~av.ok THEN "unparsed"
    ELSE IF j = "evaluate"
    THEN EvalEffectivePaths(eval_parse_args(av), e).test_data
    ELSE TrainEffectivePaths(train_parse_args(av), e).train_data
DataAt(path, d) == IF path = "" THEN [kind |-> "missing"] ELSE d

EvalVariables == {"SM_MODEL_DIR", "SM_CHANNEL_TEST", "SM_OUTPUT_DATA_DIR"}
TrainVariables == {"SM_CHANNEL_TRAIN", "SM_MODEL_DIR"}
RunInit ==
    /\ job \in {"train", "evaluate"}
    /\ \E d \in RunData :
          /\ header = d[2]
          /\ IF job = "evaluate"
             THEN /\ order = RunOrder
                  /\ \/ /\ argv \in Argvs(EvalOptions)
                        /\ env \in Envs(EvalVariables, EvalVariables)
                        /\ fs = PlainTree /\ d = PlainData /\ disk = <<>>
                     \/ /\ argv \in PlainArgvs(EvalOptions)
                        /\ env \in PlainEnvs(EvalVariables)
                        /\ fs \in RunTrees
                        /\ disk \in EarlierDisks(job)
             ELSE /\ argv \in Argvs(TrainOptions)
                  /\ env \in Envs(TrainVariables, TrainVariables)
                  /\ fs = <<>> /\ order = <<>>
                  /\ disk \in EarlierDisks(job)
          /\ data = DataAt(DataPath(job, argv, env), d[1])
    /\ history = <<>>
    /\ evalData = NotLoaded /\ trainData = NotLoaded
    /\ pc = "start"
    /\ args = <<>> /\ paths = <<>> /\ made = {} /\ written = <<>>
    /\ faults = {} /\ attempts = <<>>
    /\ exc = "none" /\ raised = "none" /\ done = <<>>

RunNext ==
    \/ E_ParseArgs \/ E_ResolvePaths \/ E_MakeOutputDir \/ E_FindModel \/ E_LoadModel
    \/ E_LoadData \/ E_Select \/ E_Predict \/ E_Metric \/ E_Persist \/ E_Handler
    \/ T_ParseArgs \/ T_ResolvePaths \/ T_MakeModelDir \/ T_LoadData \/ T_Select
    \/ T_Fit \/ T_Metric \/ T_Persist \/ T_Handler

\* main() runs to its end: nothing suspends a step that can be taken
SpecRun == RunInit /\ [][RunNext]_vars /\ WF_vars(RunNext)

----------------------------------------------------------------------------
(* Resolver claims.  The vocabulary below is the specification's, written  *)
(* without the glob operators: a model file is a file whose name ends in   *)
(* .joblib, an archive is a file whose name ends in .tar.gz.               *)

LastName(p) == p[Len(p)]
ModelFiles(tree) == { p \in DOMAIN tree : EndsWith(LastName(p), JoblibExt) }
\* neither the file's name nor a directory on its path starts with a dot
Undotted(p) == \A i \in 1..Len(p) : p[i][1] # "."
SearchableModelFiles(tree) == { p \in ModelFiles(tree) : Undotted(p) }
TopLevelArchives(tree) ==
    { p \in DOMAIN tree : Len(p) = 1 /\ EndsWith(p[1], TarGzExt) }
Position(ord, n) == CHOOSE i \in 1..Len(ord) : ord[i] = n
FirstListed(tree, ord) ==
    CHOOSE p \in TopLevelArchives(tree) :
        \A q \in TopLevelArchives(tree) : Position(ord, p[1]) <= Position(ord, q[1])
HoldsModel(tree, p) == tree[p] \in BundleIds /\ ModelFiles(Members(tree[p])) # {}
HoldsSearchableModel(tree, p) ==
    tree[p] \in BundleIds /\ SearchableModelFiles(Members(tree[p])) # {}
Calls == 1..Len(history)
\* every progress message of call c could be printed
Said(c) == history[c].status # "OSError"

\* what C1 promises of call c
ExtractsFirstAndReturns(c) ==
    LET h == history[c]
        tar == FirstListed(h.before, order)
    IN  /\ h.status = "ok"
        /\ h.extracted = <<tar>>
        /\ h.after = Merge(h.before, Members(h.before[tar]))
        /\ h.path \in ModelFiles(h.after)

\* C1 as stated: on a tree with no model file at any depth and at least one
\* top-level archive holding a model file, the call extracts exactly the
\* first listed archive and returns an existing model file.
C1_AsStated ==
    \A c \in Calls :
        (/\ ModelFiles(history[c].before) = {}
         /\ \E p \in TopLevelArchives(history[c].before) : HoldsModel(history[c].before, p))
        => ExtractsFirstAndReturns(c)

\* C1 amended: the same, when it is the first listed top-level archive that
\* holds a model file, and one the recursive search can see (no dot-name on
\* its path), and the call's progress messages can be printed.
C1_FirstArchiveHoldsModel ==
    \A c \in Calls :
        (/\ ModelFiles(history[c].before) = {}
         /\ TopLevelArchives(history[c].before) # {}
         /\ HoldsSearchableModel(history[c].before, FirstListed(history[c].before, order))
         /\ Said(c))
        => ExtractsFirstAndReturns(c)

\* C1 witness: a call on a tree with two archives, the first listed holding a
\* model in a subdirectory, has extracted it and returned that model.
C1_Witness ==
    \E c \in Calls :
        /\ ModelFiles(history[c].before) = {}
        /\ Cardinality(TopLevelArchives(history[c].before)) = 2
        /\ history[c].before[FirstListed(history[c].before, order)] = "TDeep"
        /\ history[c].status = "ok"
        /\ history[c].path = <<N_sub, N_k>>
        /\ history[c].after # history[c].before

\* what C2 promises of call c: an existing model, nothing extracted or changed
Untouched(c) ==
    /\ history[c].extracted = <<>>
    /\ history[c].after = history[c].before
ReturnsExistingUntouched(c) ==
    /\ history[c].status = "ok"
    /\ history[c].path \in ModelFiles(history[c].before)
    /\ Untouched(c)

\* C2 as stated: whenever a model file exists at any depth the call returns
\* an existing model file without extracting or changing anything, and in
\* any sequence of calls at most the first one extracts.
C2_AsStated ==
    /\ \A c \in Calls : ModelFiles(history[c].before) # {} => ReturnsExistingUntouched(c)
    /\ \A c \in Calls : c > 1 => history[c].extracted = <<>>

\* C2 amended: whenever a model file exists that the search can see (no
\* dot-name on its path) the call extracts and changes nothing, and returns
\* an existing model file unless its progress message cannot be printed;
\* and once a call has returned successfully every later call does so too.
C2_FirstMatchWins ==
    /\ \A c \in Calls :
          SearchableModelFiles(history[c].before) # {} =>
              /\ Untouched(c)
              /\ Said(c) => ReturnsExistingUntouched(c)
              /\ ~Said(c) => history[c].variant = "existing"
    /\ \A c, d \in Calls :
          (c < d /\ history[c].status = "ok") =>
              /\ Untouched(d)
              /\ Said(d) => ReturnsExistingUntouched(d)

\* C2 witness: a first call extracted an archive and returned the model; a
\* second call, the archive still lying there, returned the same model and
\* touched nothing.
C2_Witness ==
    /\ Len(history) >= 2
    /\ history[1].status = "ok"
    /\ history[1].variant = "extracted"
    /\ history[2].status = "ok"
    /\ history[2].variant = "existing"
    /\ history[2].path = history[1].path
    /\ history[2].path \in ModelFiles(history[2].before)
    /\ ReturnsExistingUntouched(2)
    /\ TopLevelArchives(history[2].before) # {}

\* C3: with no model file at any depth and no archive directly inside the
\* directory the call fails with ModelNotFound and changes nothing, also
\* when an archive sits in a subdirectory.
C3_NotFoundLeavesTreeAlone ==
    \A c \in Calls :
        (ModelFiles(history[c].before) = {} /\ TopLevelArchives(history[c].before) = {})
        => /\ history[c].status = "ModelNotFound"
           /\ history[c].extracted = <<>>
           /\ history[c].after = history[c].before

\* C3 witness: a call on a tree whose only archive is nested has failed.
C3_Witness ==
    \E c \in Calls :
        /\ NestedArchive \in DOMAIN history[c].before
        /\ ModelFiles(history[c].before) = {}
        /\ TopLevelArchives(history[c].before) = {}
        /\ history[c].status = "ModelNotFound"

\* the case of C10: no model file at any depth, and the first listed
\* top-level archive is a bundle without a model file
ModelLessArchiveCase(c) ==
    /\ ModelFiles(history[c].before) = {}
    /\ TopLevelArchives(history[c].before) # {}
    /\ history[c].before[FirstListed(history[c].before, order)] \in BundleIds
    /\ ~HoldsModel(history[c].before, FirstListed(history[c].before, order))

FailsAfterExtraction(c) ==
    LET h == history[c]
        tar == FirstListed(h.before, order)
    IN  /\ h.status = "ModelNotFound"
        /\ h.variant = "post"
        /\ h.extracted = <<tar>>
        /\ h.after = Merge(h.before, Members(h.before[tar]))
        /\ \A p \in DOMAIN Members(h.before[tar]) : p \in DOMAIN fs

RepeatsTheFailure(c) ==
    (c + 1) \in Calls =>
        /\ history[c + 1].status = "ModelNotFound"
        /\ history[c + 1].variant = "post"
        /\ history[c + 1].extracted = history[c].extracted

\* C10 as stated: the call fails after extracting, the contents stay, and
\* the next call extracts the same archive and fails the same way.
C10_AsStated ==
    \A c \in Calls :
        ModelLessArchiveCase(c) => FailsAfterExtraction(c) /\ RepeatsTheFailure(c)

\* C10 amended: when the progress message can be printed the call fails
\* after extracting and the contents stay; the next call, if its message can
\* be printed too, extracts the same archive and fails the same way when
\* the extracted contents brought no top-level archive.  A call whose
\* message cannot be printed extracts nothing.
C10_FailedExtractionStays ==
    \A c \in Calls :
        ModelLessArchiveCase(c) =>
            /\ Said(c) =>
                  /\ FailsAfterExtraction(c)
                  /\ (/\ TopLevelArchives(Members(history[c].before[FirstListed(history[c].before, order)])) = {}
                      /\ (c + 1) \in Calls => Said(c + 1))
                        => RepeatsTheFailure(c)
            /\ ~Said(c) => history[c].variant = "extracting" /\ Untouched(c)

\* C10 witness: two calls in a row extracted the same model-less archive and
\* failed, its contents lying in the directory.
C10_Witness ==
    /\ Len(history) >= 2
    /\ ModelLessArchiveCase(1)
    /\ history[1].variant = "post"
    /\ history[2].variant = "post"
    /\ history[2].extracted = history[1].extracted
    /\ <<N_txt>> \in DOMAIN fs
    /\ <<N_txt>> \notin DOMAIN history[1].before

----------------------------------------------------------------------------
(* Loader claims *)

\* the name ends in the tabular extension
IsCsvName(n) == Len(n) >= 2 /\ n[Len(n) - 1] = "." /\ n[Len(n)] = "csv"
CsvParts(d) == { n \in DOMAIN d.entries : IsCsvName(n) }
ListedAt(d, n) == CHOOSE i \in 1..Len(d.listing) : d.listing[i] = n

RECURSIVE RowCount(_, _)
RowCount(d, names) ==
    IF names = {} THEN 0
    ELSE LET n == CHOOSE x \in names : TRUE
         IN  Len(d.entries[n]) + RowCount(d, names \ {n})

\* where the rows of part n begin: after the rows of the parts listed before it
Offset(d, n) == RowCount(d, { m \in CsvParts(d) : ListedAt(d, m) < ListedAt(d, n) })

\* what C4 promises of a loader's result r
LoadedAsClaimed(r) ==
    /\ data.kind = "dir" /\ CsvParts(data) # {} =>
          /\ r.status = "ok"
          /\ Len(r.frame.rows) = RowCount(data, CsvParts(data))
          /\ \A n \in CsvParts(data) : \A j \in 1..Len(data.entries[n]) :
                r.frame.rows[Offset(data, n) + j] = data.entries[n][j]
    /\ data.kind = "file" => r.status = "ok" /\ r.frame.rows = data.table

\* C4: a directory with N>0 CSV parts loads as the concatenation of exactly
\* those parts in listing order (row count the sum of the parts', each
\* part's rows contiguous and in order); a single file loads as its own
\* table; the Trainer's and the Evaluator's loader agree.
C4_LoadConcatenatesParts ==
    /\ evalData # NotLoaded => LoadedAsClaimed(evalData)
    /\ trainData # NotLoaded => LoadedAsClaimed(trainData)
    /\ (evalData # NotLoaded /\ trainData # NotLoaded) => evalData = trainData

\* C4 witness: both loaders have read a directory of two non-empty parts with
\* different rows, lying beside a file and a subdirectory that are ignored.
C4_Witness ==
    /\ data.kind = "dir"
    /\ CsvParts(data) = {D_p1, D_dot}
    /\ {D_bak, N_sub} \subseteq DOMAIN data.entries
    /\ data.entries[D_p1] = <<"r1", "r2">>
    /\ data.entries[D_dot] = <<"r2", "r2">>
    /\ ListedAt(data, D_dot) < ListedAt(data, D_p1)
    /\ evalData.status = "ok"
    /\ trainData.status = "ok"
    /\ evalData.frame.rows = <<"r2", "r2", "r1", "r2">>

\* C5: a directory without a CSV part, empty or not, makes the loader fail
\* with NoDataFound and return no dataset.
C5_NoPartsNoData ==
    (data.kind = "dir" /\ CsvParts(data) = {}) =>
        /\ evalData # NotLoaded => evalData = [status |-> "NoDataFound"]
        /\ trainData # NotLoaded => trainData = [status |-> "NoDataFound"]

\* C5 witness: both loaders have failed on a directory holding only a
\* non-matching file and a subdirectory.
C5_Witness ==
    /\ data.kind = "dir"
    /\ DOMAIN data.entries = {D_bak, N_sub}
    /\ evalData.status = "NoDataFound"
    /\ trainData.status = "NoDataFound"

----------------------------------------------------------------------------
(* Path precedence claims *)

Did(step) == \E i \in 1..Len(done) : done[i] = step

EnvVarOf(o) ==
    CASE o = "model_dir"  -> "SM_MODEL_DIR"
      [] o = "test_data"  -> "SM_CHANNEL_TEST"
      [] o = "output_dir" -> "SM_OUTPUT_DATA_DIR"
      [] o = "train_data" -> "SM_CHANNEL_TRAIN"

\* C6: in the Evaluator the effective path of each option is the CLI
\* argument when given, else the environment variable when set, else the
\* built-in default.
C6_AsStated ==
    (job = "evaluate" /\ Did("paths")) =>
        \A o \in EvalOptions :
            paths[o] = IF o \in DOMAIN argv.opts THEN argv.opts[o]
                       ELSE IF EnvVarOf(o) \in DOMAIN env THEN env[EnvVarOf(o)]
                       ELSE EvalDefault(o)

\* the path C7 says the Trainer uses for option o
EnvFirst(o) ==
    IF EnvVarOf(o) \in DOMAIN env THEN env[EnvVarOf(o)]
    ELSE IF o \in DOMAIN argv.opts THEN argv.opts[o]
    ELSE TrainDefault(o)

\* C7: in the Trainer the effective path is the environment variable
\* whenever it is set, given argument or not, and the argument or its
\* default otherwise; the model file is written under that model directory.
C7_EnvWinsInTrainer ==
    (job = "train" /\ Did("paths")) =>
        /\ \A o \in TrainOptions : paths[o] = EnvFirst(o)
        /\ \A i \in 1..Len(written) :
              written[i].name = "model.joblib" => written[i].dir = EnvFirst("model_dir")
        /\ pc = "Success" =>
              /\ \E i \in 1..Len(written) :
                    written[i] = [dir |-> EnvFirst("model_dir"), name |-> "model.joblib",
                                  content |-> ModelText]
              /\ disk["model.joblib"] = ModelText

\* C7 witness: a Trainer run given --model-dir explicitly, with SM_MODEL_DIR
\* set as well, has succeeded and written the model under SM_MODEL_DIR.
C7_Witness ==
    /\ job = "train" /\ pc = "Success"
    /\ "model_dir" \in DOMAIN argv.opts
    /\ argv.opts["model_dir"] = "/cli/model"
    /\ "SM_MODEL_DIR" \in DOMAIN env
    /\ written = <<[dir |-> "/env/model", name |-> "model.joblib", content |-> ModelText]>>

----------------------------------------------------------------------------
(* Run claims *)

WroteName(name) == \E i \in 1..Len(written) : written[i].name = name

\* the file of that name lies in the run's output directory with this text
Holds(name, text) == name \in DOMAIN disk /\ disk[name] = text

\* the Evaluator has called the resolver on a model directory with no model
\* file at any depth and no archive directly inside it
EvaluatorFoundNothing ==
    /\ job = "evaluate"
    /\ Len(history) = 1
    /\ ModelFiles(history[1].before) = {}
    /\ TopLevelArchives(history[1].before) = {}

\* what C8 promises of such a run: ModelNotFound travels to the handler
\* and is what main() raises; both logs are tried, each in its turn, and a
\* log whose write succeeded holds its message
NotFoundLoggedAndRaised ==
    /\ exc = "ModelNotFound"
    /\ attempts # <<>>
    /\ attempts[1].name = "model_not_found.log"
    /\ attempts[1].ok => Holds("model_not_found.log", NotFoundText(history[1].variant))
    /\ pc = "FatalError" =>
          /\ raised = "ModelNotFound"
          /\ Len(attempts) = 2
          /\ attempts[2].name = "evaluation_error.log"
          /\ attempts[2].ok => Holds("evaluation_error.log", LogText("ModelNotFound"))

\* C8 as stated: such a run ends in failure with ModelNotFound re-raised,
\* without metrics.json, the logs tried.
C8_AsStated ==
    EvaluatorFoundNothing =>
        /\ pc \in {"handler", "FatalError"}
        /\ ~WroteName("metrics.json")
        /\ NotFoundLoggedAndRaised

\* C8 amended: such a run ends in failure; it opens no metrics.json and
\* leaves one of an earlier run as it was; the output directory was created
\* and nothing is written elsewhere.  When the messages to stderr can be
\* printed, ModelNotFound is re-raised and model_not_found.log and
\* evaluation_error.log are each tried and, unless the write fails, hold
\* their message; a failed log write leaves the raised error the same.  When
\* a print to stderr raises, its OSError is what is raised and the log
\* write that would have followed is not tried.
C8_ModelNotFoundRun ==
    EvaluatorFoundNothing =>
        /\ pc \in {"handler", "FatalError"}
        /\ ~WroteName("metrics.json")
        /\ "metrics.json" \in DOMAIN disk => disk["metrics.json"] = EarlierText
        /\ paths.output_dir \in made
        /\ \A i \in 1..Len(written) : written[i].dir = paths.output_dir
        /\ "stderr" \notin faults => NotFoundLoggedAndRaised
        /\ "stderr" \in faults =>
              /\ Len(attempts) <= 1
              /\ pc = "FatalError" => raised = "OSError"

\* C8 witness: such a run has ended, every print done; the write of the
\* first log broke off after a part of the message, the second log is
\* complete, and ModelNotFound is what was raised.
C8_Witness ==
    /\ EvaluatorFoundNothing
    /\ NestedArchive \in DOMAIN fs
    /\ pc = "FatalError"
    /\ faults = {}
    /\ raised = "ModelNotFound"
    /\ ~attempts[1].ok
    /\ attempts[2].ok
    /\ Holds("evaluation_error.log", LogText("ModelNotFound"))
    /\ Holds("model_not_found.log", <<"pre">>)

Artifact == IF job = "train" THEN "model.joblib" ELSE "metrics.json"
ArtifactText == IF job = "train" THEN ModelText ELSE MetricsText
ErrorLog == IF job = "train" THEN "train_error.log" ELSE "evaluation_error.log"
Steps == IF job = "train" THEN TrainSteps ELSE EvalSteps
ArtifactWrites == { i \in 1..Len(written) : written[i].name = Artifact }
CompleteArtifact == \E i \in ArtifactWrites : written[i].content = ArtifactText
Terminal == {"Success", "FatalError"}
Failed == exc # "none" \/ raised # "none"

\* the steps run once each, in order; a failure ends the pass; the artifact
\* is opened at most once and only when every earlier step has completed;
\* Success means every step completed and the artifact is there in full
SinglePass ==
    /\ Len(done) <= Len(Steps)
    /\ done = SubSeq(Steps, 1, Len(done))
    /\ Cardinality(ArtifactWrites) <= 1
    /\ ArtifactWrites # {} => Len(done) >= Len(Steps) - 1
    /\ Failed => done # Steps /\ pc \in {"handler", "FatalError"}
    /\ pc = "Success" => done = Steps /\ CompleteArtifact /\ ~Failed
    /\ pc = "FatalError" => raised # "none"

\* C9 as stated, its state part: the single pass; after a failure the
\* artifact of the run is not written, the error log is, and the failure is
\* what is raised.
C9_AsStated ==
    /\ SinglePass
    /\ Failed => ArtifactWrites = {}
    /\ pc = "FatalError" =>
          /\ Holds(ErrorLog, LogText(raised))
          /\ exc # "none" => raised = exc

\* after a failure: the run did not open the artifact and what an earlier
\* run left is as it was; or the persist step is the one that failed and
\* the file holds what got written, all of it only when the print that
\* follows the write is what raised
ArtifactAfterFailure ==
    Failed =>
        /\ ArtifactWrites = {} => (Artifact \in DOMAIN disk => disk[Artifact] = EarlierText)
        /\ ArtifactWrites # {} =>
              /\ done = SubSeq(Steps, 1, Len(Steps) - 1)
              /\ exc = "OSError"
              /\ disk[Artifact] \in Prefixes(ArtifactText)
        /\ CompleteArtifact => "stdout" \in faults

\* what main() raises is the failure that ended the pass, unless a print to
\* stderr raised on the way: then it is that OSError
FailureRaised ==
    (pc = "FatalError" /\ exc # "none") =>
        \/ raised = exc
        \/ raised = "OSError" /\ "stderr" \in faults

\* when every print to stderr went through, the error log is tried by the
\* handler and is there in full unless the directory could not be made or
\* the write failed
LogBestEffort ==
    (pc = "FatalError" /\ raised # "SystemExit" /\ "stderr" \notin faults) =>
        /\ attempts # <<>>
        /\ attempts[Len(attempts)].name = ErrorLog
        /\ attempts[Len(attempts)].ok => Holds(ErrorLog, LogText(raised))

\* C9 amended: the single pass as above; a failure is terminal and no later
\* step runs; the failure is re-raised unless a print to stderr raises; the
\* artifact is opened only by the persist step, which when it fails leaves
\* what it wrote; the error log is written unless a print to stderr or the
\* log write fails or argparse exited; every run ends in exactly one of
\* Success and FatalError and stays there.
C9_SinglePassNoRetry ==
    /\ [](SinglePass /\ ArtifactAfterFailure /\ FailureRaised /\ LogBestEffort)
    /\ [][(Failed \/ pc \in Terminal) => done' = done]_vars
    /\ [][(pc \in Terminal) => (vars' = vars)]_vars
    /\ <>(pc \in Terminal)

\* C9 witness: an Evaluator run got through metric computation and failed
\* while writing metrics.json over that of an earlier run; the directory
\* holds the part written, the handler's log write failed too, and the
\* OSError was raised.
C9_Witness ==
    /\ job = "evaluate" /\ pc = "FatalError"
    /\ raised = "OSError"
    /\ faults = {}
    /\ done = SubSeq(EvalSteps, 1, 9)
    /\ Holds("metrics.json", <<"{", "mse">>)
    /\ attempts # <<>>
    /\ ~attempts[Len(attempts)].ok
    /\ "evaluation_error.log" \notin DOMAIN disk

====
